---- MODULE Spec2Model ----
(***************************************************************************)
(* Model of rasa/core/brokers/broker.py: the EventBroker.create factory,   *)
(* its builtin dispatch (_create_from_endpoint_config) and the dynamic     *)
(* loader with its except clause (_load_from_module_string).               *)
(*                                                                         *)
(* Python strings are sequences of one-character strings, so that          *)
(* str.lower() and the f-string of the warning are computed, not assumed.  *)
(***************************************************************************)
EXTENDS Naturals, Integers, Sequences, FiniteSets, TLC

VARIABLES pc, obj, env, outcome, calls, log

vars == <<pc, obj, env, outcome, calls, log>>

----------------------------------------------------------------------------
(* Bounds *)

\* number of distinct adapter-parameter bags an EndpointConfig may carry
NumParams == 2
\* number of create() calls that may be in flight at the same time
NumCalls == 2

----------------------------------------------------------------------------
(* Python values *)

PyNone == [kind |-> "None"]
PyStr(s) == [kind |-> "str", chars |-> s]
EndpointConfig(t, p) == [kind |-> "EndpointConfig", type |-> t, params |-> p]
Class(n, f) == [kind |-> "class", name |-> n, fec |-> f]
Instance(cls, cfg) == [kind |-> "EventBroker", cls |-> cls.name, cfg |-> cfg]

Return(v) == [kind |-> "return", val |-> v]
Raise(e) == [kind |-> "raise", val |-> [kind |-> "exception", cls |-> e]]

\* one call made to a collaborator: the function and its argument
Invocation(f, a) == [fn |-> f, arg |-> a]

----------------------------------------------------------------------------
(* str.lower() *)

UpperCase == <<"A","B","C","D","E","F","G","H","I","J","K","L","M",
               "N","O","P","Q","R","S","T","U","V","W","X","Y","Z">>
LowerCase == <<"a","b","c","d","e","f","g","h","i","j","k","l","m",
               "n","o","p","q","r","s","t","u","v","w","x","y","z">>

LowerChar(ch) ==
    IF \E i \in 1..Len(UpperCase) : UpperCase[i] = ch
    THEN LowerCase[CHOOSE i \in 1..Len(UpperCase) : UpperCase[i] = ch]
    ELSE ch

UpperChar(ch) ==
    IF \E i \in 1..Len(LowerCase) : LowerCase[i] = ch
    THEN UpperCase[CHOOSE i \in 1..Len(LowerCase) : LowerCase[i] = ch]
    ELSE ch

\* variant: a comparison that does not fold case
lower_identity(s) == s

\* str.lower() on the letters A-Z

lower(s) == [i \in 1..Len(s) |-> LowerChar(s[i])]

----------------------------------------------------------------------------
(* The type tags of the source and the sample identifiers *)

pika == <<"p","i","k","a">>
sql == <<"s","q","l">>
file == <<"f","i","l","e">>
kafka == <<"k","a","f","k","a">>

\* every letter casing of the word w
Casings(w) ==
    { [i \in 1..Len(w) |-> IF i \in U THEN UpperChar(w[i]) ELSE w[i]] :
        U \in SUBSET (1..Len(w)) }

BuiltinTags == {pika, sql, file, kafka}

NotARealModule ==
    <<"n","o","t",".","a",".","r","e","a","l",".","M","o","d","u","l","e">>
MyBroker == <<"m","y",".","B","r","o","k","e","r">>
MyBare == <<"m","y",".","B","a","r","e">>
MyThing == <<"m","y",".","T","h","i","n","g">>
MyGone == <<"m","y",".","G","o","n","e">>
EmptyStr == <<>>

OtherStrings ==
    { EmptyStr, NotARealModule, MyBroker, MyBare, MyThing, MyGone,
      <<"p","i","k","a","s">>, <<"p","i","k","a"," ">>, <<"s","q">>,
      <<" ","s","q","l">>, <<"k","a","f","k","a",".","K">> }

TypeStrings ==
    Casings(pika) \cup Casings(sql) \cup Casings(file) \cup Casings(kafka)
        \cup OtherStrings

Types == {PyNone} \cup {PyStr(s) : s \in TypeStrings}

----------------------------------------------------------------------------
(* Classes and exceptions *)

PikaEventBroker == Class("PikaEventBroker", "own")
SQLEventBroker == Class("SQLEventBroker", "own")
FileEventBroker == Class("FileEventBroker", "own")
KafkaEventBroker == Class("KafkaEventBroker", "own")

\* a user adapter that implements from_endpoint_config
UserBroker == Class("UserBroker", "own")
\* a subclass of EventBroker that does not override from_endpoint_config
BareBroker == Class("BareBroker", "inherited")
\* a loadable type that has no from_endpoint_config attribute at all
Thing == Class("Thing", "missing")

\* the identifiers that resolve to a loadable type in this process
LoadableTypes ==
    [s \in {MyBroker, MyBare, MyThing} |->
        IF s = MyBroker THEN UserBroker
        ELSE IF s = MyBare THEN BareBroker ELSE Thing]

Exceptions ==
    {"AttributeError", "ImportError", "ModuleNotFoundError",
     "NotImplementedError", "ValueError", "ConnectionError"}

\* the direct base class of an exception class
Base(e) ==
    IF e = "ModuleNotFoundError" THEN "ImportError"
    ELSE IF e = "NotImplementedError" THEN "RuntimeError"
    ELSE IF e = "ConnectionError" THEN "OSError"
    ELSE "Exception"

\* issubclass(e, c) for the exception classes above
IsSubclass(e, c) == e = c \/ Base(e) = c \/ c = "Exception"

\* how resolution of an unknown identifier fails
ResolveErrors == {"ImportError", "ModuleNotFoundError", "AttributeError"}

\* what an adapter's constructor does with the config it is given
CtorOutcomes == {"ok"} \cup Exceptions

Envs == [resolveErr : ResolveErrors, ctor : CtorOutcomes]

----------------------------------------------------------------------------
(* Collaborators *)

\* common.class_from_module_path: the type an identifier resolves to, or an
\* import-style / attribute-style error when it resolves to nothing
class_from_module_path(path, e) ==
    IF path \in DOMAIN LoadableTypes
    THEN Return(LoadableTypes[path])
    ELSE Raise(e.resolveErr)

\* from_endpoint_config of a concrete adapter: a connector built from the
\* config it was given, or an adapter-defined error
Adapter_from_endpoint_config(cls, broker_config, e) ==
    IF e.ctor = "ok"
    THEN Return(Instance(cls, broker_config))
    ELSE Raise(e.ctor)

\* EventBroker.from_endpoint_config, the default of the base class
EventBroker_from_endpoint_config(cls, broker_config) ==
    Raise("NotImplementedError")

\* hasattr(cls, "from_endpoint_config")
hasattr_from_endpoint_config(cls) == cls.fec # "missing"

\* cls.from_endpoint_config(broker_config): the class's own method, or the
\* one it inherits from EventBroker
from_endpoint_config(cls, broker_config, e) ==
    IF cls.fec = "own"
    THEN Adapter_from_endpoint_config(cls, broker_config, e)
    ELSE EventBroker_from_endpoint_config(cls, broker_config)

ResolveCall(broker_config) ==
    Invocation("class_from_module_path", broker_config.type)

ConstructCall(cls, broker_config) ==
    Invocation(cls.name \o ".from_endpoint_config", broker_config)

----------------------------------------------------------------------------
(* _load_from_module_string *)

\* str(e)
ErrorText(exc) == <<exc.cls>>

\* str(broker_config.type), as the f-string formats it
TypeText(type) == IF type = PyNone THEN <<"N","o","n","e">> ELSE type.chars

\* the f-string of the warning
warning_message(type, exc) ==
    <<"The `EventBroker` type '">> \o TypeText(type) \o
    <<"' could not be found. Not using any event broker. Error: ">> \o
    ErrorText(exc)

Warning(msg) == [level |-> "WARNING", msg |-> msg]

\* variant of the except clause that names AttributeError alone
Catches_attribute_only(exc) == IsSubclass(exc.cls, "AttributeError")

\* except (AttributeError, ImportError)
Catches(exc) ==
    IsSubclass(exc.cls, "AttributeError") \/ IsSubclass(exc.cls, "ImportError")

\* the two statements inside the try
load_try_body(broker_config, e) ==
    LET r == class_from_module_path(broker_config.type.chars, e)
    IN  IF r.kind = "raise"
        THEN [ret |-> r, invoked |-> <<ResolveCall(broker_config)>>]
        ELSE IF ~hasattr_from_endpoint_config(r.val)
        THEN [ret |-> Raise("AttributeError"),
              invoked |-> <<ResolveCall(broker_config)>>]
        ELSE [ret |-> from_endpoint_config(r.val, broker_config, e),
              invoked |-> <<ResolveCall(broker_config),
                            ConstructCall(r.val, broker_config)>>]

_load_from_module_string(broker_config, e) ==
    LET b == load_try_body(broker_config, e)
    IN  IF b.ret.kind = "raise" /\ Catches(b.ret.val)
        THEN [ret |-> Return(PyNone), invoked |-> b.invoked,
              log |-> <<Warning(warning_message(broker_config.type, b.ret.val))>>]
        ELSE [ret |-> b.ret, invoked |-> b.invoked, log |-> <<>>]

----------------------------------------------------------------------------
(* _create_from_endpoint_config *)

\* variant: the builtin constructor called under the loader's except clause
construct_builtin_guarded(cls, endpoint_config, e) ==
    LET r == from_endpoint_config(cls, endpoint_config, e)
    IN  IF r.kind = "raise" /\ Catches(r.val)
        THEN [ret |-> Return(PyNone),
              invoked |-> <<ConstructCall(cls, endpoint_config)>>,
              log |-> <<Warning(warning_message(endpoint_config.type, r.val))>>]
        ELSE [ret |-> r,
              invoked |-> <<ConstructCall(cls, endpoint_config)>>,
              log |-> <<>>]

\* Cls.from_endpoint_config(endpoint_config) of a builtin, outside any try
construct_builtin(cls, endpoint_config, e) ==
    [ret |-> from_endpoint_config(cls, endpoint_config, e),
     invoked |-> <<ConstructCall(cls, endpoint_config)>>,
     log |-> <<>>]

\* variant: `not endpoint_config.type` in place of `is None`
is_pika_falsy(type) ==
    type = PyNone \/ type.chars = <<>> \/ lower(type.chars) = pika

\* endpoint_config.type is None or endpoint_config.type.lower() == "pika"
is_pika(type) == type = PyNone \/ lower(type.chars) = pika

\* variant of the elif chain with the sql and file branches exchanged
builtin_class_swapped(type) ==
    IF lower(type.chars) = sql THEN FileEventBroker
    ELSE IF lower(type.chars) = file THEN SQLEventBroker
    ELSE IF lower(type.chars) = kafka THEN KafkaEventBroker
    ELSE PyNone

\* the elif chain after the pika branch: the builtin class, or PyNone
builtin_class(type) ==
    IF lower(type.chars) = sql THEN SQLEventBroker
    ELSE IF lower(type.chars) = file THEN FileEventBroker
    ELSE IF lower(type.chars) = kafka THEN KafkaEventBroker
    ELSE PyNone

\* an attribute read on an object that has no such attribute
AttributeErrorOutcome ==
    [ret |-> Raise("AttributeError"), invoked |-> <<>>, log |-> <<>>]

\* variant without the `is None` return: None is built like a default config
create_from_endpoint_config_none_as_default(endpoint_config, e) ==
    IF endpoint_config = PyNone
    THEN construct_builtin(PikaEventBroker, endpoint_config, e)
    ELSE IF endpoint_config.kind # "EndpointConfig"
    THEN AttributeErrorOutcome
    ELSE IF is_pika(endpoint_config.type)
    THEN construct_builtin(PikaEventBroker, endpoint_config, e)
    ELSE IF builtin_class(endpoint_config.type) # PyNone
    THEN construct_builtin(builtin_class(endpoint_config.type), endpoint_config, e)
    ELSE _load_from_module_string(endpoint_config, e)

_create_from_endpoint_config(endpoint_config, e) ==
    IF endpoint_config = PyNone
    THEN [ret |-> Return(PyNone), invoked |-> <<>>, log |-> <<>>]
    ELSE IF endpoint_config.kind # "EndpointConfig"
    THEN AttributeErrorOutcome
    ELSE IF is_pika(endpoint_config.type)
    THEN construct_builtin(PikaEventBroker, endpoint_config, e)
    ELSE IF builtin_class(endpoint_config.type) # PyNone
    THEN construct_builtin(builtin_class(endpoint_config.type), endpoint_config, e)
    ELSE _load_from_module_string(endpoint_config, e)

----------------------------------------------------------------------------
(* EventBroker.create *)

\* isinstance(obj, EventBroker)
isinstance_EventBroker(o) == o.kind = "EventBroker"

\* variant without the isinstance pass-through
create_always_builds(o, e) == _create_from_endpoint_config(o, e)

create(o, e) ==
    IF isinstance_EventBroker(o)
    THEN [ret |-> Return(o), invoked |-> <<>>, log |-> <<>>]
    ELSE _create_from_endpoint_config(o, e)

----------------------------------------------------------------------------
(* Inputs of a call *)

Configs == {EndpointConfig(t, p) : t \in Types, p \in 1..NumParams}

\* connectors a caller has constructed beforehand
PreBuilt ==
    { Instance(UserBroker, EndpointConfig(PyStr(MyBroker), 1)),
      Instance(BareBroker, EndpointConfig(PyNone, 1)) }

Inputs == {PyNone} \cup PreBuilt \cup Configs

NoOutcome == [ret |-> Return(PyNone), invoked |-> <<>>, log |-> <<>>]

DefaultEnv == [resolveErr |-> "ImportError", ctor |-> "ok"]

\* the frame of a caller that has not called create yet
IdleFrame ==
    [pc |-> "idle", obj |-> PyNone, env |-> DefaultEnv, cls |-> PyNone,
     exc |-> PyNone, invoked |-> <<>>, ret |-> PyNone]

----------------------------------------------------------------------------
(* One call at a time: each step is a whole call of EventBroker.create *)

Init ==
    /\ pc = "idle"
    /\ obj = PyNone
    /\ env = DefaultEnv
    /\ outcome = NoOutcome
    /\ calls = [c \in 1..NumCalls |-> IdleFrame]
    /\ log = <<>>

\* a caller passes o to EventBroker.create in an environment e
Create(o, e) ==
    /\ pc = "idle"
    /\ pc' = "done"
    /\ obj' = o
    /\ env' = e
    /\ outcome' = create(o, e)
    /\ UNCHANGED <<calls, log>>

\* a caller passes the connector the last call returned to create again
CreateAgain(e) ==
    /\ pc = "done"
    /\ outcome.ret.kind = "return"
    /\ isinstance_EventBroker(outcome.ret.val)
    /\ pc' = "done"
    /\ obj' = outcome.ret.val
    /\ env' = e
    /\ outcome' = create(outcome.ret.val, e)
    /\ UNCHANGED <<calls, log>>

\* the caller takes the result (or the exception) and the call is over
Finish ==
    /\ pc = "done"
    /\ pc' = "idle"
    /\ obj' = PyNone
    /\ env' = DefaultEnv
    /\ outcome' = NoOutcome
    /\ UNCHANGED <<calls, log>>

Next ==
    \/ \E o \in Inputs, e \in Envs : Create(o, e)
    \/ \E e \in Envs : CreateAgain(e)
    \/ Finish

Spec == Init /\ [][Next]_vars

----------------------------------------------------------------------------
(* Concurrent calls: every caller runs create statement by statement in a   *)
(* frame of its own; the logger is the one object the callers share.        *)

ConcObjs ==
    { PyNone,
      Instance(UserBroker, EndpointConfig(PyStr(MyBroker), 1)),
      EndpointConfig(PyNone, 1),
      EndpointConfig(PyStr(<<"S","Q","L">>), 1),
      EndpointConfig(PyStr(NotARealModule), 1),
      EndpointConfig(PyStr(MyBroker), 1),
      EndpointConfig(PyStr(MyBare), 1),
      EndpointConfig(PyStr(MyThing), 1) }

ConcEnvs == [resolveErr : {"ModuleNotFoundError"}, ctor : {"ok", "AttributeError"}]

\* the parameter obj / endpoint_config / broker_config in the frame of call c
FrameConfig(c) == calls[c].obj

\* variant: one process-wide slot for the chosen class instead of a local
FrameClass_shared(c) ==
    calls[CHOOSE d \in 1..NumCalls : calls[d].cls # PyNone].cls

\* the class the frame of call c holds: the imported builtin, or the local
\* event_broker_class
FrameClass(c) == calls[c].cls

\* the caller c calls EventBroker.create(o)
Invoke(c, o, e) ==
    /\ calls[c].pc = "idle"
    /\ calls' = [calls EXCEPT ![c] = [IdleFrame EXCEPT !.pc = "create",
                                                       !.obj = o, !.env = e]]
    /\ UNCHANGED <<pc, obj, env, outcome, log>>

\* EventBroker.create: the isinstance test
CreateStep(c) ==
    /\ calls[c].pc = "create"
    /\ calls' = [calls EXCEPT ![c] =
                    IF isinstance_EventBroker(FrameConfig(c))
                    THEN [@ EXCEPT !.pc = "done", !.ret = Return(FrameConfig(c))]
                    ELSE [@ EXCEPT !.pc = "from_config"]]
    /\ UNCHANGED <<pc, obj, env, outcome, log>>

\* _create_from_endpoint_config: the if/elif chain up to the chosen branch
DispatchStep(c) ==
    /\ calls[c].pc = "from_config"
    /\ calls' = [calls EXCEPT ![c] =
                    IF FrameConfig(c) = PyNone
                    THEN [@ EXCEPT !.pc = "done", !.ret = Return(PyNone)]
                    ELSE IF FrameConfig(c).kind # "EndpointConfig"
                    THEN [@ EXCEPT !.pc = "done", !.ret = Raise("AttributeError")]
                    ELSE IF is_pika(FrameConfig(c).type)
                    THEN [@ EXCEPT !.pc = "construct", !.cls = PikaEventBroker]
                    ELSE IF builtin_class(FrameConfig(c).type) # PyNone
                    THEN [@ EXCEPT !.pc = "construct",
                                   !.cls = builtin_class(FrameConfig(c).type)]
                    ELSE [@ EXCEPT !.pc = "resolve"]]
    /\ UNCHANGED <<pc, obj, env, outcome, log>>

\* the builtin's from_endpoint_config, called outside the try
ConstructStep(c) ==
    /\ calls[c].pc = "construct"
    /\ calls' = [calls EXCEPT ![c] =
                    [@ EXCEPT !.pc = "done",
                              !.invoked = Append(@, ConstructCall(FrameClass(c), FrameConfig(c))),
                              !.ret = from_endpoint_config(FrameClass(c), FrameConfig(c),
                                                           calls[c].env)]]
    /\ UNCHANGED <<pc, obj, env, outcome, log>>

\* _load_from_module_string: common.class_from_module_path(broker_config.type)
ResolveStep(c) ==
    /\ calls[c].pc = "resolve"
    /\ LET r == class_from_module_path(FrameConfig(c).type.chars, calls[c].env)
       IN  calls' = [calls EXCEPT ![c] =
                        IF r.kind = "raise"
                        THEN [@ EXCEPT !.pc = "except", !.exc = r.val,
                                       !.invoked = Append(@, ResolveCall(FrameConfig(c)))]
                        ELSE [@ EXCEPT !.pc = "getattr", !.cls = r.val,
                                       !.invoked = Append(@, ResolveCall(FrameConfig(c)))]]
    /\ UNCHANGED <<pc, obj, env, outcome, log>>

\* _load_from_module_string: the lookup event_broker_class.from_endpoint_config
GetattrStep(c) ==
    /\ calls[c].pc = "getattr"
    /\ calls' = [calls EXCEPT ![c] =
                    IF hasattr_from_endpoint_config(FrameClass(c))
                    THEN [@ EXCEPT !.pc = "construct_loaded"]
                    ELSE [@ EXCEPT !.pc = "except",
                                   !.exc = Raise("AttributeError").val]]
    /\ UNCHANGED <<pc, obj, env, outcome, log>>

\* _load_from_module_string: the call of the looked-up constructor, in the try
ConstructLoadedStep(c) ==
    /\ calls[c].pc = "construct_loaded"
    /\ LET r == from_endpoint_config(FrameClass(c), FrameConfig(c), calls[c].env)
       IN  calls' = [calls EXCEPT ![c] =
                        IF r.kind = "raise"
                        THEN [@ EXCEPT !.pc = "except", !.exc = r.val,
                                       !.invoked = Append(@, ConstructCall(FrameClass(c), FrameConfig(c)))]
                        ELSE [@ EXCEPT !.pc = "done", !.ret = r,
                                       !.invoked = Append(@, ConstructCall(FrameClass(c), FrameConfig(c)))]]
    /\ UNCHANGED <<pc, obj, env, outcome, log>>

\* _load_from_module_string: the except clause, or the exception passing it by
ExceptStep(c) ==
    /\ calls[c].pc = "except"
    /\ IF Catches(calls[c].exc)
       THEN /\ log' = Append(log,
                        [call |-> c,
                         record |-> Warning(warning_message(FrameConfig(c).type,
                                                            calls[c].exc))])
            /\ calls' = [calls EXCEPT ![c] =
                            [@ EXCEPT !.pc = "done", !.ret = Return(PyNone)]]
       ELSE /\ log' = log
            /\ calls' = [calls EXCEPT ![c] =
                            [@ EXCEPT !.pc = "done",
                                      !.ret = [kind |-> "raise", val |-> calls[c].exc]]]
    /\ UNCHANGED <<pc, obj, env, outcome>>

ConcNext ==
    \E c \in 1..NumCalls :
        \/ \E o \in ConcObjs, e \in ConcEnvs : Invoke(c, o, e)
        \/ CreateStep(c)
        \/ DispatchStep(c)
        \/ ConstructStep(c)
        \/ ResolveStep(c)
        \/ GetattrStep(c)
        \/ ConstructLoadedStep(c)
        \/ ExceptStep(c)

ConcSpec == Init /\ [][ConcNext]_vars

----------------------------------------------------------------------------
(* Properties of one call *)

\* the call that just returned was given an EndpointConfig
CalledWithConfig == pc = "done" /\ obj.kind = "EndpointConfig"

\* the tag is some letter casing of the word w
TagIs(w) == obj.type # PyNone /\ obj.type.chars \in Casings(w)

\* the names of the collaborators the call invoked, in order
InvokedNames == [i \in 1..Len(outcome.invoked) |-> outcome.invoked[i].fn]

LoaderInvoked ==
    \E i \in 1..Len(outcome.invoked) : outcome.invoked[i].fn = "class_from_module_path"

\* the sequence part occurs in the sequence text
Contains(text, part) ==
    \E i \in 1..(Len(text) + 1) :
        /\ i + Len(part) - 1 <= Len(text)
        /\ \A j \in 1..Len(part) : text[i + j - 1] = part[j]

\* the tag is a non-empty string, no builtin tag, and resolves to nothing
Unresolvable ==
    /\ obj.type # PyNone
    /\ obj.type.chars # <<>>
    /\ \A w \in BuiltinTags : obj.type.chars \notin Casings(w)
    /\ obj.type.chars \notin DOMAIN LoadableTypes

\* the tag resolves through the loader to this class
ResolvesTo(cls) ==
    /\ obj.type # PyNone
    /\ obj.type.chars \in DOMAIN LoadableTypes
    /\ LoadableTypes[obj.type.chars] = cls

\* C1: a config whose type is absent or any casing of "pika" is handed to
\* PikaEventBroker.from_endpoint_config, that call is the only one made, and
\* create's result is that constructor's result.
C1_PikaIsDefault ==
    (CalledWithConfig /\ (obj.type = PyNone \/ TagIs(pika))) =>
        /\ outcome.invoked = <<Invocation("PikaEventBroker.from_endpoint_config", obj)>>
        /\ outcome.ret = Adapter_from_endpoint_config(PikaEventBroker, obj, env)
        /\ outcome.log = <<>>

C1_Witness ==
    /\ CalledWithConfig
    /\ obj.type = PyStr(<<"P","i","K","a">>)
    /\ outcome.ret = Return(Instance(PikaEventBroker, obj))

\* C2: a config whose type is any casing of "sql", "file" or "kafka" is handed
\* to exactly the matching builtin constructor and never to the loader.
C2_BuiltinDispatch ==
    CalledWithConfig =>
        /\ TagIs(sql) =>
             outcome.invoked = <<Invocation("SQLEventBroker.from_endpoint_config", obj)>>
        /\ TagIs(file) =>
             outcome.invoked = <<Invocation("FileEventBroker.from_endpoint_config", obj)>>
        /\ TagIs(kafka) =>
             outcome.invoked = <<Invocation("KafkaEventBroker.from_endpoint_config", obj)>>
        /\ (TagIs(sql) \/ TagIs(file) \/ TagIs(kafka)) => ~LoaderInvoked

C2_Witness ==
    /\ CalledWithConfig
    /\ obj.type = PyStr(<<"K","a","f","k","a">>)
    /\ outcome.ret = Return(Instance(KafkaEventBroker, obj))

\* C3: a constructed connector passed to create comes back as the same
\* instance, nothing is invoked or logged, and create of the result is the
\* result again.
C3_PassThrough ==
    (pc = "done" /\ obj.kind = "EventBroker") =>
        /\ outcome.ret = Return(obj)
        /\ outcome.invoked = <<>>
        /\ outcome.log = <<>>
        /\ \A e \in Envs : create(outcome.ret.val, e) = outcome

C3_Witness ==
    /\ pc = "done"
    /\ obj.kind = "EventBroker"
    /\ obj.cls = "KafkaEventBroker"
    /\ outcome.ret = Return(obj)

\* C4: a non-empty, non-builtin type that resolves to nothing makes create
\* return None without raising and log exactly one warning holding the type.
C4_UnresolvableIsAbsent ==
    (CalledWithConfig /\ Unresolvable) =>
        /\ outcome.ret = Return(PyNone)
        /\ Len(outcome.log) = 1
        /\ outcome.log[1].level = "WARNING"
        /\ Contains(outcome.log[1].msg, obj.type.chars)

C4_Witness ==
    /\ CalledWithConfig
    /\ obj.type = PyStr(NotARealModule)
    /\ env.resolveErr = "ModuleNotFoundError"
    /\ outcome.ret = Return(PyNone)
    /\ Len(outcome.log) = 1

\* C5: a type that resolves to a class without the construction capability,
\* be it missing or only inherited from EventBroker, makes create return None
\* and log a warning; nothing is raised.
C5_ContractMismatchIsAbsent ==
    (CalledWithConfig /\ (ResolvesTo(Thing) \/ ResolvesTo(BareBroker))) =>
        /\ outcome.ret = Return(PyNone)
        /\ Len(outcome.log) >= 1

\* C6: whatever a resolved adapter's own from_endpoint_config raises reaches
\* the caller of create, and no warning is logged.
C6_LoadedConstructorFailurePropagates ==
    (CalledWithConfig /\ ResolvesTo(UserBroker) /\ env.ctor # "ok") =>
        /\ outcome.ret = Raise(env.ctor)
        /\ outcome.log = <<>>

\* C7: create(None) returns None; nothing is invoked, logged or raised.
C7_NoneIsAbsent ==
    (pc = "done" /\ obj = PyNone) =>
        /\ outcome.ret = Return(PyNone)
        /\ outcome.invoked = <<>>
        /\ outcome.log = <<>>

C7_Witness ==
    /\ pc = "done"
    /\ obj = PyNone
    /\ env.ctor = "ValueError"
    /\ outcome.ret = Return(PyNone)

\* C8 as stated: an empty type string is defaulted like an absent one, the
\* pika adapter is constructed and the loader never sees the empty string.
C8_EmptyTagIsDefault ==
    (CalledWithConfig /\ obj.type = PyStr(EmptyStr)) =>
        /\ outcome.invoked = <<Invocation("PikaEventBroker.from_endpoint_config", obj)>>
        /\ ~LoaderInvoked

\* C8 amended: an empty type string is not defaulted; it goes to the dynamic
\* loader like any other unrecognised tag and no pika adapter is constructed.
C8_EmptyTagGoesToLoader ==
    (CalledWithConfig /\ obj.type = PyStr(EmptyStr)) =>
        /\ Len(outcome.invoked) >= 1
        /\ outcome.invoked[1] = Invocation("class_from_module_path", PyStr(EmptyStr))
        /\ \A i \in 1..Len(outcome.invoked) :
               outcome.invoked[i].fn # "PikaEventBroker.from_endpoint_config"

C8_Witness ==
    /\ CalledWithConfig
    /\ obj.type = PyStr(EmptyStr)
    /\ LoaderInvoked
    /\ outcome.ret = Return(PyNone)

\* C10: whatever a builtin adapter's from_endpoint_config raises reaches the
\* caller of create unchanged, and the factory logs no warning.
C10_BuiltinFailurePropagates ==
    (/\ CalledWithConfig
     /\ (obj.type = PyNone \/ \E w \in BuiltinTags : TagIs(w))
     /\ env.ctor # "ok") =>
        /\ outcome.ret = Raise(env.ctor)
        /\ outcome.log = <<>>

C10_Witness ==
    /\ CalledWithConfig
    /\ obj.type = PyStr(<<"s","Q","l">>)
    /\ env.ctor = "ImportError"
    /\ outcome.ret = Raise("ImportError")

----------------------------------------------------------------------------
(* Properties of concurrent calls *)

\* the warnings the logger received from call c, in order
LogOf(c) ==
    LET mine == SelectSeq(log, LAMBDA r : r.call = c)
    IN  [i \in 1..Len(mine) |-> mine[i].record]

\* C9: under every interleaving, a finished call has invoked, logged and
\* returned or raised exactly what create does when run alone on its input.
C9_CallsAreIndependent ==
    \A c \in 1..NumCalls :
        calls[c].pc = "done" =>
            LET alone == create(calls[c].obj, calls[c].env)
            IN  /\ calls[c].ret = alone.ret
                /\ calls[c].invoked = alone.invoked
                /\ LogOf(c) = alone.log

C9_Witness ==
    /\ calls[1].pc = "done"
    /\ calls[1].ret = Return(PyNone)
    /\ LogOf(1) # <<>>
    /\ calls[2].pc = "construct_loaded"
    /\ calls[2].obj # calls[1].obj

====
